---- MODULE Spec2Model ----
(***************************************************************************)
(* LocalTranslator (src/app.py): the subtitle batch translation worker,    *)
(* its reconciliation of a backend response with the batch it was asked    *)
(* to translate, and the caller that accumulates the delivered batches;    *)
(* and, each on its own, the batch planning, the progress computation and  *)
(* the parsing and formatting of subtitle documents.                       *)
(*                                                                         *)
(* Text is a sequence of one-character strings.  The two stop sequences    *)
(* "<end_of_turn>" and "<start_of_turn>", a timestamp and the arrow        *)
(* " --> " between two timestamps are each carried as one element of such  *)
(* a sequence.                                                             *)
(***************************************************************************)
EXTENDS Integers, Sequences, FiniteSets, TLC

\* ------------------------------------------------------------------------
\* Bounds of the model
\* ------------------------------------------------------------------------
\* longest subtitle list given to a job
MaxSubs == 3
\* longest batch handed to the reconciliation on its own
MaxBatch == 2
\* most pieces a response handed to the reconciliation on its own is made of
MaxParts == 4
\* most batches of a job whose progress is computed on its own
MaxBatches == 50
\* most blocks of a subtitle document parsed on its own
MaxBlocks == 2
\* most workers the application starts
MaxWorkers == 3

\* entry numbers of the subtitle lists of a job
JobNumbers == {1, 2}
\* entry numbers of the batches reconciled on their own
Numbers == {1, 2, 3}

\* ------------------------------------------------------------------------
\* Characters and strings
\* ------------------------------------------------------------------------
Digits == <<"0", "1", "2", "3", "4", "5", "6", "7", "8", "9">>

IsDigit(c) == \E d \in 1..10 : Digits[d] = c

\* str.strip() and \s: the whitespace characters
IsSpace(c) == c \in {" ", "\n", "\t"}

DigitVal(c) == (CHOOSE d \in 1..10 : Digits[d] = c) - 1

RECURSIVE ParseInt(_)
\* int(s) of a non-empty string of digits
ParseInt(ds) ==
    IF Len(ds) = 0 THEN 0
    ELSE 10 * ParseInt(SubSeq(ds, 1, Len(ds) - 1)) + DigitVal(ds[Len(ds)])

RECURSIVE IntToStr(_)
\* f"{n}" of an int
IntToStr(n) ==
    IF n < 0 THEN <<"-">> \o IntToStr(0 - n)
    ELSE IF n < 10 THEN <<Digits[n + 1]>>
    ELSE IntToStr(n \div 10) \o <<Digits[(n % 10) + 1]>>

RECURSIVE LStrip(_)
LStrip(s) == IF Len(s) > 0 /\ IsSpace(s[1]) THEN LStrip(Tail(s)) ELSE s

RECURSIVE RStrip(_)
RStrip(s) ==
    IF Len(s) > 0 /\ IsSpace(s[Len(s)]) THEN RStrip(SubSeq(s, 1, Len(s) - 1)) ELSE s

\* str.strip()
Strip(s) == RStrip(LStrip(s))

RECURSIVE Flatten(_)
\* ''.join(pieces)
Flatten(pieces) ==
    IF Len(pieces) = 0 THEN <<>> ELSE Head(pieces) \o Flatten(Tail(pieces))

\* ------------------------------------------------------------------------
\* re.split(r'\[(\d+)\]', text)
\* ------------------------------------------------------------------------
RECURSIVE DigitsEnd(_, _)
\* the first index at or after i that holds no digit
DigitsEnd(s, i) ==
    IF i <= Len(s) /\ IsDigit(s[i]) THEN DigitsEnd(s, i + 1) ELSE i

\* the index of the "]" closing a marker \[(\d+)\] that starts at i, 0 if
\* no marker starts at i
MarkerEnd(s, i) ==
    IF s[i] = "["
    THEN LET j == DigitsEnd(s, i + 1)
         IN  IF j > i + 1 /\ j <= Len(s) /\ s[j] = "]" THEN j ELSE 0
    ELSE 0

RECURSIVE SplitFrom(_, _, _)
\* the parts of s from the segment starting at from, scanning at i
SplitFrom(s, from, i) ==
    IF i > Len(s) THEN <<SubSeq(s, from, Len(s))>>
    ELSE LET j == MarkerEnd(s, i)
         IN  IF j = 0 THEN SplitFrom(s, from, i + 1)
             ELSE <<SubSeq(s, from, i - 1), SubSeq(s, i + 1, j - 1)>>
                    \o SplitFrom(s, j + 1, j + 1)

\* [text, digits, text, digits, ..., text]
re_split(s) == SplitFrom(s, 1, 1)

\* ------------------------------------------------------------------------
\* Subtitle entries
\* ------------------------------------------------------------------------
\* the timestamps of the entry at position p of a document
StartTime(p) == <<"00:00:0" \o ToString(p) \o ",000">>
EndTime(p) == <<"00:00:0" \o ToString(p) \o ",500">>

\* the source text of the entry at position p of a document
SrcText(p) == <<"s", Digits[p + 1]>>

Entry(n, p) ==
    [number |-> n, start_time |-> StartTime(p), end_time |-> EndTime(p),
     text |-> SrcText(p)]

\* [subtitle['number'] for subtitle in entries]
NumbersOf(entries) == {entries[k].number : k \in 1..Len(entries)}

\* the position of the first entry of the batch numbered num, 0 if none
FirstWithNumber(batch, num) ==
    IF \E k \in 1..Len(batch) : batch[k].number = num
    THEN CHOOSE k \in 1..Len(batch) :
            /\ batch[k].number = num
            /\ \A h \in 1..(k - 1) : batch[h].number # num
    ELSE 0

RECURSIVE InsertByNumber(_, _)
\* e put into the sorted sequence s after every entry whose number is not
\* greater (list.sort is stable)
InsertByNumber(s, e) ==
    IF Len(s) = 0 THEN <<e>>
    ELSE IF Head(s).number <= e.number
         THEN <<Head(s)>> \o InsertByNumber(Tail(s), e)
         ELSE <<e>> \o s

RECURSIVE SortedPrefix(_, _)
SortedPrefix(s, k) ==
    IF k = 0 THEN <<>> ELSE InsertByNumber(SortedPrefix(s, k - 1), s[k])

\* a mutant of SortByNumber: the batch is left in discovery order
SortSkipped(s) == s

\* translated_batch.sort(key=lambda x: x['number'])
SortByNumber(s) == SortedPrefix(s, Len(s))

\* ------------------------------------------------------------------------
\* TranslationWorker._translate_subtitles: reconciliation of one batch
\* ------------------------------------------------------------------------
\* a mutant of TranslatedCopy: the copy keeps the content untrimmed
TranslatedCopyRaw(subtitle, content) == [subtitle EXCEPT !.text = content]

\* subtitle.copy() with 'text' replaced by the stripped content
TranslatedCopy(subtitle, content) == [subtitle EXCEPT !.text = Strip(content)]

RECURSIVE MatchedFrom(_, _, _)
\* the while loop over translated_parts, i counted from 0 as in the source
MatchedFrom(parts, batch, i) ==
    IF i < Len(parts) - 1
    THEN LET subtitle_num == ParseInt(parts[i + 1])
             hit == FirstWithNumber(batch, subtitle_num)
         IN  (IF hit = 0 THEN <<>>
              ELSE <<TranslatedCopy(batch[hit], parts[i + 2])>>)
                \o MatchedFrom(parts, batch, i + 2)
    ELSE <<>>

\* a mutant of GapFill: entries without a marker are not put back
GapFillSkipped(batch, translated_batch) == translated_batch

\* the entries whose number is not among the translated ones are appended
GapFill(batch, translated_batch) ==
    translated_batch
      \o SelectSeq(batch, LAMBDA e : e.number \notin NumbersOf(translated_batch))

\* ------------------------------------------------------------------------
\* KoboldCppClient.translate_text: what it makes of the text the server sent
\* ------------------------------------------------------------------------
\* payload["stop_sequence"]
stop_sequence == <<<<"<end_of_turn>">>, <<"<start_of_turn>">>>>

\* translation.endswith(suffix)
EndsWith(s, suffix) ==
    /\ Len(suffix) <= Len(s)
    /\ SubSeq(s, Len(s) - Len(suffix) + 1, Len(s)) = suffix

RECURSIVE StripStopFrom(_, _)
\* the for loop over the stop sequences, from the k-th on
StripStopFrom(translation, k) ==
    IF k > Len(stop_sequence) THEN translation
    ELSE IF EndsWith(translation, stop_sequence[k])
         THEN StripStopFrom(
                SubSeq(translation, 1, Len(translation) - Len(stop_sequence[k])),
                k + 1)
         ELSE StripStopFrom(translation, k + 1)

StripStopSequences(translation) == StripStopFrom(translation, 1)

RECURSIVE SpaceEnd(_, _)
\* the first index at or after i that holds no whitespace
SpaceEnd(s, i) ==
    IF i <= Len(s) /\ IsSpace(s[i]) THEN SpaceEnd(s, i + 1) ELSE i

RECURSIVE SlashSubFrom(_, _)
SlashSubFrom(s, i) ==
    IF i > Len(s) THEN <<>>
    ELSE LET w == SpaceEnd(s, i)
         IN  IF w <= Len(s) /\ s[w] = "/"
             THEN <<"\n">> \o SlashSubFrom(s, SpaceEnd(s, w + 1))
             ELSE <<s[i]>> \o SlashSubFrom(s, i + 1)

\* re.sub(r'\s*/\s*', '\n', text)
SlashSub(s) == SlashSubFrom(s, 1)

RECURSIVE OutputSubFrom(_, _)
OutputSubFrom(s, i) ==
    IF i > Len(s) THEN <<>>
    ELSE IF s[i] = "Output:" /\ (i = 1 \/ s[i - 1] = "\n")
         THEN OutputSubFrom(s, SpaceEnd(s, i + 1))
         ELSE <<s[i]>> \o OutputSubFrom(s, i + 1)

\* re.sub(r'^Output:\s*', '', text, flags=re.MULTILINE)
OutputSub(s) == OutputSubFrom(s, 1)

RECURSIVE SplitLinesFrom(_, _, _)
SplitLinesFrom(s, from, i) ==
    IF i > Len(s) THEN <<SubSeq(s, from, Len(s))>>
    ELSE IF s[i] = "\n"
         THEN <<SubSeq(s, from, i - 1)>> \o SplitLinesFrom(s, i + 1, i + 1)
         ELSE SplitLinesFrom(s, from, i + 1)

\* text.split('\n')
SplitLines(s) == SplitLinesFrom(s, 1, 1)

RECURSIVE JoinLines(_)
\* '\n'.join(lines)
JoinLines(lines) ==
    IF Len(lines) = 0 THEN <<>>
    ELSE IF Len(lines) = 1 THEN lines[1]
         ELSE lines[1] \o <<"\n">> \o JoinLines(Tail(lines))

\* one line of _clean_translation: a line that starts with a marker is
\* rewritten as "[num] content"
ProcessLine(line) ==
    IF Len(Strip(line)) = 0 THEN line
    ELSE LET k == SpaceEnd(line, 1)
             j == MarkerEnd(line, k)
         IN  IF j = 0 THEN line
             ELSE <<"[">> \o SubSeq(line, k + 1, j - 1) \o <<"]", " ">>
                    \o SubSeq(line, SpaceEnd(line, j + 1), Len(line))

_clean_translation(text) ==
    LET lines == SplitLines(OutputSub(SlashSub(text)))
    IN  JoinLines([k \in 1..Len(lines) |-> ProcessLine(lines[k])])

\* the text translate_text returns with success for the text of the server
TranslatedText(raw) == Strip(_clean_translation(StripStopSequences(raw)))

\* ------------------------------------------------------------------------
\* SrtParser.create_batches and SrtParser.format_srt
\* ------------------------------------------------------------------------
\* (a plan without the last batch when it is not a full one)
BatchCountOfFull(subs, size) == IF size < 0 THEN 0 ELSE Len(subs) \div size

\* range(0, len(subtitles), batch_size), counted from 1; the range of a
\* negative step from 0 up is empty
BatchCount(subs, size) == IF size < 0 THEN 0 ELSE (Len(subs) + size - 1) \div size

\* range() raises ValueError for a step of zero
create_batches_raises(subs, size) == size = 0

create_batches(subs, size) ==
    [b \in 1..BatchCount(subs, size) |->
        SubSeq(subs, (b - 1) * size + 1,
               IF b * size < Len(subs) THEN b * size ELSE Len(subs))]

RECURSIVE format_srt(_)
\* every entry gives four lines, the last one empty; the lines are joined
\* by newlines, so the text of a non-empty list ends with one newline
format_srt(subs) ==
    IF Len(subs) = 0 THEN <<>>
    ELSE LET e == Head(subs)
             block == IntToStr(e.number) \o <<"\n">>
                        \o e.start_time \o <<" --> ">> \o e.end_time \o <<"\n">>
                        \o e.text \o <<"\n">>
         IN  IF Len(subs) = 1 THEN block
             ELSE block \o <<"\n">> \o format_srt(Tail(subs))

\* ------------------------------------------------------------------------
\* SrtParser.parse_srt
\* ------------------------------------------------------------------------
\* the timestamps: each is one element of a text
Timestamps == {StartTime(p)[1] : p \in 1..9} \cup {EndTime(p)[1] : p \in 1..9}

\* \n\s*\n matched at the newline at i: the position of the last newline of
\* the whitespace that follows it, 0 when that whitespace has no newline
BlankEnd(s, i) ==
    LET newlines == {j \in (i + 1)..Len(s) :
                        /\ s[j] = "\n"
                        /\ \A m \in (i + 1)..j : IsSpace(s[m])}
    IN  IF newlines = {} THEN 0
        ELSE CHOOSE j \in newlines : \A m \in newlines : m <= j

RECURSIVE SplitBlocksFrom(_, _, _)
SplitBlocksFrom(s, from, i) ==
    IF i > Len(s) THEN <<SubSeq(s, from, Len(s))>>
    ELSE IF s[i] = "\n" /\ BlankEnd(s, i) # 0
         THEN <<SubSeq(s, from, i - 1)>>
                \o SplitBlocksFrom(s, BlankEnd(s, i) + 1, BlankEnd(s, i) + 1)
         ELSE SplitBlocksFrom(s, from, i + 1)

\* re.split(r'\n\s*\n', s)
SplitBlocks(s) == SplitBlocksFrom(s, 1, 1)

\* the digits of the argument of int(): what is left of the stripped string
\* after a sign
IntDigits(s) ==
    LET t == Strip(s)
    IN  IF Len(t) > 0 /\ t[1] \in {"+", "-"} THEN Tail(t) ELSE t

\* int(s) raises ValueError (the strings here have no underscores, which
\* int() accepts between digits)
int_raises(s) ==
    \/ Len(IntDigits(s)) = 0
    \/ \E i \in 1..Len(IntDigits(s)) : ~IsDigit(IntDigits(s)[i])

\* int(s)
int_value(s) ==
    IF Len(Strip(s)) > 0 /\ Strip(s)[1] = "-"
    THEN 0 - ParseInt(IntDigits(s))
    ELSE ParseInt(IntDigits(s))

\* re.match of the timestamp pattern: the line starts with a timestamp, the
\* arrow and a timestamp
timestamp_match(line) ==
    /\ Len(line) >= 3
    /\ line[1] \in Timestamps
    /\ line[2] = " --> "
    /\ line[3] \in Timestamps

\* (a parser that takes the first text line of a block only)
FirstTextLine(lines) == lines[3]

\* '\n'.join(lines[2:])
subtitle_text(lines) == JoinLines(SubSeq(lines, 3, Len(lines)))

\* the entries a block gives: one, or none when the block is skipped
ParseBlock(block) ==
    LET lines == SplitLines(Strip(block))
    IN  IF \/ Len(Strip(block)) = 0
           \/ Len(lines) < 3
           \/ int_raises(lines[1])
           \/ ~timestamp_match(lines[2])
        THEN <<>>
        ELSE <<[number |-> int_value(lines[1]),
                start_time |-> <<lines[2][1]>>,
                end_time |-> <<lines[2][3]>>,
                text |-> subtitle_text(lines)]>>

RECURSIVE ParseBlocks(_)
ParseBlocks(blocks) ==
    IF Len(blocks) = 0 THEN <<>>
    ELSE ParseBlock(Head(blocks)) \o ParseBlocks(Tail(blocks))

parse_srt(srt_content) == ParseBlocks(SplitBlocks(Strip(srt_content)))

\* ------------------------------------------------------------------------
\* The reconciled batch
\* ------------------------------------------------------------------------
\* [line for line in lines if line.strip()]
NonEmptyLines(t) == SelectSeq(SplitLines(t), LAMBDA line : Len(Strip(line)) > 0)

\* a mutant of Reconcile: a text without markers has its non-empty lines
\* given to the entries by position, whatever their number
ReconcileLinesAlways(batch, translated_text) ==
    IF Len(re_split(translated_text)) = 1
    THEN SortByNumber(
            [k \in 1..Len(batch) |->
                IF k <= Len(NonEmptyLines(translated_text))
                THEN TranslatedCopy(batch[k], NonEmptyLines(translated_text)[k])
                ELSE batch[k]])
    ELSE SortByNumber(GapFill(batch, MatchedFrom(re_split(translated_text), batch, 1)))

\* the translated batch the worker makes of a batch and the text returned by
\* client.translate_text
Reconcile(batch, translated_text) ==
    SortByNumber(GapFill(batch, MatchedFrom(re_split(translated_text), batch, 1)))

\* ------------------------------------------------------------------------
\* State
\* ------------------------------------------------------------------------
VARIABLES
    subtitles,              \* TranslationWorker.subtitles: the entries given to the job
    text,                   \* TranslationWorker.text: the free text given to the job
    batch_size,             \* TranslationWorker.batch_size
    delay,                  \* TranslationWorker.delay
    abort,                  \* TranslationWorker.abort
    connected,              \* KoboldCppClient.connected
    pc,                     \* where the worker thread is in run()
    batch_index,            \* the batch the loop of _translate_subtitles is at, from 0
    translated_subtitles,   \* the list _translate_subtitles accumulates
    events,                 \* what happened so far: requests sent, texts received,
                            \* signals emitted, the first stop request
    handled,                \* how many emitted signals the caller's slots have run for
    app_translated,         \* TranslationApp.translated_subtitles
    r_pc,                   \* reconciliation on its own: "input", "output" or "off"
    r_batch,                \* ... the batch
    r_text,                 \* ... the text returned by translate_text
    r_out,                  \* ... the reconciled batch
    f_pc,                   \* a function on its own: "input", "output" or "off"
    f_in,                   \* ... what it is applied to
    f_out,                  \* ... what it returns
    ui,                     \* TranslationApp's widgets: which buttons are enabled,
                            \* the source text, whether the window is closed, and
                            \* the last thing the user did
    original_subtitles,     \* len(TranslationApp.original_subtitles)
    worker,                 \* TranslationApp.worker: 0 for None, else the place
                            \* of the worker in workers
    workers                 \* the TranslationWorker objects the application made

job_vars ==
    <<subtitles, text, batch_size, delay, abort, connected, pc, batch_index,
      translated_subtitles, events, handled, app_translated>>

r_vars == <<r_pc, r_batch, r_text, r_out>>

f_vars == <<f_pc, f_in, f_out>>

a_vars == <<ui, original_subtitles, worker, workers>>

vars == <<job_vars, r_vars, f_vars, a_vars>>

\* TranslationApp.__init__: no worker, no subtitles, the three buttons
\* disabled, the source text empty
NoApp ==
    /\ ui = [translate_button |-> FALSE, srt_translate_button |-> FALSE,
             stop_button |-> FALSE, source_text |-> <<>>, closed |-> FALSE,
             last |-> "none"]
    /\ original_subtitles = 0
    /\ worker = 0
    /\ workers = <<>>

\* ------------------------------------------------------------------------
\* Inputs
\* ------------------------------------------------------------------------
\* the lists of n entries numbered from S; the entry at position p has the
\* timestamps and the source text of position p
EntryLists(S, n) ==
    {[p \in 1..n |-> Entry(f[p], p)] : f \in [1..n -> S]}

\* the subtitle lists a job is given (translate_srt starts no job without entries)
SubtitleLists == UNION {EntryLists(JobNumbers, n) : n \in 1..MaxSubs}

\* batch_size_spinbox: at least 1
BatchSizes == 1..MaxSubs

\* delay_spinbox: at least 0
Delays == {0, 1}

\* the free texts a job is given
FreeTexts == {<<"h", "i">>}

\* what the server sends back for a batch of a job
BackendTexts ==
    { <<"[", "2", "]", " ", "y", "\n", "\n", "[", "1", "]", " ", "x", "<end_of_turn>">>,
      <<"[", "1", "]", " ", "x", " ", "[", "1", "]", " ", "z">>,
      <<"x", "\n", "y">>,
      <<"[", "1", "]">> }

\* the messages translate_text returns with a failure of the request
FailureMessages == {<<"Server responded with status code: 500">>}

\* the pieces the texts reconciled on their own are made of
Pieces ==
    { <<"[", "1", "]">>, <<"[", "2", "]">>, <<"[", "0", "3", "]">>,
      <<"x">>, <<"y", "\n">>, <<" ">>, <<"\n">> }

RECURSIVE PieceSeqs(_)
PieceSeqs(n) ==
    IF n = 0 THEN {<<>>}
    ELSE LET shorter == PieceSeqs(n - 1)
         IN  shorter \cup {Append(q, piece) : q \in {q \in shorter : Len(q) = n - 1},
                                              piece \in Pieces}

\* the texts translate_text returns for the server texts of at most MaxParts pieces
ReturnedTexts == {TranslatedText(Flatten(q)) : q \in PieceSeqs(MaxParts)}

\* the batches reconciled on their own
Batches == UNION {EntryLists(Numbers, n) : n \in 1..MaxBatch}

\* ------------------------------------------------------------------------
\* Signals
\* ------------------------------------------------------------------------
Emit(signal) == Append(events, signal)

progress_updated(value) == [type |-> "progress_updated", value |-> value]

batch_completed(index, batch) ==
    [type |-> "batch_completed", index |-> index, batch |-> batch]

translation_finished(success, result) ==
    [type |-> "translation_finished", success |-> success, result |-> result]

IsSignal(e) == e.type \in {"progress_updated", "batch_completed", "translation_finished"}

\* the signals emitted so far, in order
Signals == SelectSeq(events, IsSignal)

\* the requests sent to the server so far, in order
Requests == SelectSeq(events, LAMBDA e : e.type = "request")

\* ------------------------------------------------------------------------
\* The worker thread
\* ------------------------------------------------------------------------
batches == create_batches(subtitles, batch_size)

RECURSIVE batch_text(_)
\* "[number] text\n\n" for every entry of the batch
batch_text(batch) ==
    IF Len(batch) = 0 THEN <<>>
    ELSE <<"[">> \o IntToStr(Head(batch).number) \o <<"]", " ">> \o Head(batch).text
           \o <<"\n", "\n">> \o batch_text(Tail(batch))

\* Python's float is the IEEE 754 double: 53 significant bits, results
\* rounded to the nearest double, ties to the even one.  A float that is
\* not negative is written here as [limbs, scale]: limbs are the three
\* digits of an integer in base 2^LimbBits, the most significant first, and
\* the value is that integer divided by 2^scale.
MantissaBits == 53
LimbBits == 18
Limb == 2^LimbBits

\* the digits with the carries taken over
Carried(limbs) ==
    LET middle == limbs[2] + limbs[3] \div Limb
    IN  <<limbs[1] + middle \div Limb, middle % Limb, limbs[3] % Limb>>

\* the number of binary digits of v
BitLength(v) == CHOOSE b \in 0..30 : v < 2^b /\ (b = 0 \/ 2^(b - 1) <= v)

\* the integer of limbs rounded to a multiple of 2^cut, for cut < LimbBits
Rounded(limbs, cut) ==
    LET low == limbs[3] % 2^cut
        kept == limbs[3] - low
        odd == IF cut = 0 THEN FALSE ELSE (kept \div 2^cut) % 2 = 1
        up == cut > 0 /\ (2 * low > 2^cut \/ (2 * low = 2^cut /\ odd))
    IN  Carried(<<limbs[1], limbs[2], kept + (IF up THEN 2^cut ELSE 0)>>)

RECURSIVE NormShift(_, _)
\* how often k is doubled to reach n, for 1 <= k <= n
NormShift(k, n) == IF k >= n THEN 0 ELSE 1 + NormShift(2 * k, n)

\* k / n of two ints with 1 <= k <= n: the double nearest to the quotient,
\* its 53 digits found by long division, 17 and twice 18 at a time
TrueDivide(k, n) ==
    LET shift == NormShift(k, n)
        first == k * 2^shift * 2^(MantissaBits - 1 - 2 * LimbBits)
        second == (first % n) * Limb
        third == (second % n) * Limb
        rest == third % n
        up == 2 * rest > n \/ (2 * rest = n /\ (third \div n) % 2 = 1)
    IN  [limbs |-> Carried(<<first \div n, second \div n,
                             third \div n + (IF up THEN 1 ELSE 0)>>),
         scale |-> shift + MantissaBits - 1]

\* x * m of a float and a natural number below 2^13: the double nearest to
\* the product
FloatTimes(x, m) ==
    LET product == Carried(<<x.limbs[1] * m, x.limbs[2] * m, x.limbs[3] * m>>)
        length == BitLength(product[1]) + 2 * LimbBits
    IN  [limbs |-> Rounded(product, IF length > MantissaBits
                                    THEN length - MantissaBits ELSE 0),
         scale |-> x.scale]

\* int(x) of a float that is not negative and has a scale of 2 * LimbBits
\* or more: the digits before the point
FloatToInt(x) ==
    IF x.scale - 2 * LimbBits > 30 THEN 0
    ELSE x.limbs[1] \div 2^(x.scale - 2 * LimbBits)

\* int((batch_index + 1) / len(batches) * 100)
Progress(index, count) == FloatToInt(FloatTimes(TrueDivide(index + 1, count), 100))

\* TranslationWorker.run: the mode is decided by the subtitles being non-empty
Run ==
    /\ pc = "run"
    /\ IF Len(subtitles) > 0
       THEN /\ pc' = "check"
            /\ batch_index' = 0
            /\ translated_subtitles' = <<>>
       ELSE /\ pc' = "text_check"
            /\ UNCHANGED <<batch_index, translated_subtitles>>
    /\ UNCHANGED <<subtitles, text, batch_size, delay, abort, connected, events,
                   handled, app_translated,
                   r_vars, f_vars, a_vars>>

\* a mutant of AbortBatch: the flag is not looked at before the first batch
AbortBatchNotFirst ==
    /\ pc = "check"
    /\ batch_index < Len(batches)
    /\ abort
    /\ IF batch_index = 0
       THEN /\ events' = Emit([type |-> "request", index |-> batch_index,
                               text |-> batch_text(batches[batch_index + 1])])
            /\ pc' = "call"
       ELSE /\ events' = Emit(translation_finished(FALSE, <<"Translation aborted">>))
            /\ pc' = "done"
    /\ UNCHANGED <<subtitles, text, batch_size, delay, abort, connected, batch_index,
                   translated_subtitles, handled, app_translated,
                   r_vars, f_vars, a_vars>>

\* (a worker that leaves the loop on the flag instead of returning)
AbortBatchBreaks ==
    /\ pc = "check"
    /\ batch_index < Len(batches)
    /\ abort
    /\ events' = Emit(translation_finished(FALSE, <<"Translation aborted">>))
    /\ pc' = "check"
    /\ batch_index' = Len(batches)
    /\ UNCHANGED <<subtitles, text, batch_size, delay, abort, connected,
                   translated_subtitles, handled, app_translated,
                   r_vars, f_vars, a_vars>>

\* the loop is at a batch and finds the flag set: finished(False, aborted)
AbortBatch ==
    /\ pc = "check"
    /\ batch_index < Len(batches)
    /\ abort
    /\ events' = Emit(translation_finished(FALSE, <<"Translation aborted">>))
    /\ pc' = "done"
    /\ UNCHANGED <<subtitles, text, batch_size, delay, abort, connected, batch_index,
                   translated_subtitles, handled, app_translated,
                   r_vars, f_vars, a_vars>>

\* a mutant of SendBatch: the batch is sent whatever the flag says
SendBatchUnchecked ==
    /\ pc = "check"
    /\ batch_index < Len(batches)
    /\ IF connected
       THEN /\ events' = Emit([type |-> "request", index |-> batch_index,
                               text |-> batch_text(batches[batch_index + 1])])
            /\ pc' = "call"
       ELSE /\ events' = Emit(translation_finished(FALSE,
                                <<"Translation failed: ", "Not connected to server">>))
            /\ pc' = "done"
    /\ UNCHANGED <<subtitles, text, batch_size, delay, abort, connected, batch_index,
                   translated_subtitles, handled, app_translated,
                   r_vars, f_vars, a_vars>>

\* the loop is at a batch and the flag is not set: translate_text is called;
\* it sends nothing and fails when the client is not connected
SendBatch ==
    /\ pc = "check"
    /\ batch_index < Len(batches)
    /\ ~abort
    /\ IF connected
       THEN /\ events' = Emit([type |-> "request", index |-> batch_index,
                               text |-> batch_text(batches[batch_index + 1])])
            /\ pc' = "call"
       ELSE /\ events' = Emit(translation_finished(FALSE,
                                <<"Translation failed: ", "Not connected to server">>))
            /\ pc' = "done"
    /\ UNCHANGED <<subtitles, text, batch_size, delay, abort, connected, batch_index,
                   translated_subtitles, handled, app_translated,
                   r_vars, f_vars, a_vars>>

\* (a worker that sends a failed request once more before it gives up)
BatchFailedRetried ==
    /\ pc = "call"
    /\ IF Len(SelectSeq(events, LAMBDA e : e.type = "request" /\ e.index = batch_index)) < 2
       THEN /\ events' = events
            /\ pc' = "check"
       ELSE /\ \E message \in FailureMessages :
                  events' = Emit(translation_finished(FALSE,
                                     <<"Translation failed: ">> \o message))
            /\ pc' = "done"
    /\ UNCHANGED <<subtitles, text, batch_size, delay, abort, connected, batch_index,
                   translated_subtitles, handled, app_translated,
                   r_vars, f_vars, a_vars>>

\* the request fails: finished(False, "Translation failed: " + message)
BatchFailed ==
    /\ pc = "call"
    /\ \E message \in FailureMessages :
          events' = Emit(translation_finished(FALSE, <<"Translation failed: ">> \o message))
    /\ pc' = "done"
    /\ UNCHANGED <<subtitles, text, batch_size, delay, abort, connected, batch_index,
                   translated_subtitles, handled, app_translated,
                   r_vars, f_vars, a_vars>>

\* (a worker that drops the answer of a call a stop request arrived during)
BatchTranslatedUnlessStopped ==
    /\ pc = "call"
    /\ IF abort
       THEN /\ events' = Emit(translation_finished(FALSE, <<"Translation aborted">>))
            /\ pc' = "done"
            /\ UNCHANGED <<translated_subtitles, batch_index>>
       ELSE \E raw \in BackendTexts :
              LET translated_text == TranslatedText(raw)
                  translated_batch == Reconcile(batches[batch_index + 1], translated_text)
              IN  /\ translated_subtitles' = translated_subtitles \o translated_batch
                  /\ events' = events
                        \o <<[type |-> "response", index |-> batch_index,
                              text |-> translated_text],
                             batch_completed(batch_index, translated_batch),
                             progress_updated(Progress(batch_index, Len(batches)))>>
                  /\ pc' = IF delay > 0 /\ batch_index < Len(batches) - 1
                           THEN "sleep" ELSE "check"
                  /\ batch_index' = batch_index + 1
    /\ UNCHANGED <<subtitles, text, batch_size, delay, abort, connected, handled,
                   app_translated,
                   r_vars, f_vars, a_vars>>

\* (a worker that emits the progress of a batch before the batch)
BatchTranslatedProgressFirst ==
    /\ pc = "call"
    /\ \E raw \in BackendTexts :
          LET translated_text == TranslatedText(raw)
              translated_batch == Reconcile(batches[batch_index + 1], translated_text)
          IN  /\ translated_subtitles' = translated_subtitles \o translated_batch
              /\ events' = events
                    \o <<[type |-> "response", index |-> batch_index,
                          text |-> translated_text],
                         progress_updated(Progress(batch_index, Len(batches))),
                         batch_completed(batch_index, translated_batch)>>
    /\ pc' = IF delay > 0 /\ batch_index < Len(batches) - 1 THEN "sleep" ELSE "check"
    /\ batch_index' = batch_index + 1
    /\ UNCHANGED <<subtitles, text, batch_size, delay, abort, connected, handled,
                   app_translated,
                   r_vars, f_vars, a_vars>>

\* (a worker that writes the translated text into the entry it was given
\* instead of into a copy)
BatchTranslatedInPlace ==
    /\ pc = "call"
    /\ \E raw \in BackendTexts :
          LET translated_text == TranslatedText(raw)
              translated_batch == Reconcile(batches[batch_index + 1], translated_text)
              first == batch_index * batch_size
          IN  /\ translated_subtitles' = translated_subtitles \o translated_batch
              /\ subtitles' =
                    [p \in 1..Len(subtitles) |->
                        IF /\ p > first
                           /\ p <= first + Len(batches[batch_index + 1])
                           /\ subtitles[p].number \in NumbersOf(translated_batch)
                        THEN translated_batch[FirstWithNumber(translated_batch,
                                                              subtitles[p].number)]
                        ELSE subtitles[p]]
              /\ events' = events
                    \o <<[type |-> "response", index |-> batch_index,
                          text |-> translated_text],
                         batch_completed(batch_index, translated_batch),
                         progress_updated(Progress(batch_index, Len(batches)))>>
    /\ pc' = IF delay > 0 /\ batch_index < Len(batches) - 1 THEN "sleep" ELSE "check"
    /\ batch_index' = batch_index + 1
    /\ UNCHANGED <<text, batch_size, delay, abort, connected, handled,
                   app_translated, r_vars, f_vars, a_vars>>

\* the request succeeds: the batch is reconciled, accumulated and signalled,
\* and the worker sleeps when a delay is set and a batch is left
BatchTranslated ==
    /\ pc = "call"
    /\ \E raw \in BackendTexts :
          LET translated_text == TranslatedText(raw)
              translated_batch == Reconcile(batches[batch_index + 1], translated_text)
          IN  /\ translated_subtitles' = translated_subtitles \o translated_batch
              /\ events' = events
                    \o <<[type |-> "response", index |-> batch_index,
                          text |-> translated_text],
                         batch_completed(batch_index, translated_batch),
                         progress_updated(Progress(batch_index, Len(batches)))>>
    /\ pc' = IF delay > 0 /\ batch_index < Len(batches) - 1 THEN "sleep" ELSE "check"
    /\ batch_index' = batch_index + 1
    /\ UNCHANGED <<subtitles, text, batch_size, delay, abort, connected, handled,
                   app_translated,
                   r_vars, f_vars, a_vars>>

\* (a worker whose sleep between two batches does not end)
WakeAsleep ==
    /\ pc = "sleep"
    /\ pc' = "sleep"
    /\ UNCHANGED <<subtitles, text, batch_size, delay, abort, connected, batch_index,
                   translated_subtitles, events, handled, app_translated,
                   r_vars, f_vars, a_vars>>

\* time.sleep(self.delay) returns
Wake ==
    /\ pc = "sleep"
    /\ pc' = "check"
    /\ UNCHANGED <<subtitles, text, batch_size, delay, abort, connected, batch_index,
                   translated_subtitles, events, handled, app_translated,
                   r_vars, f_vars, a_vars>>

\* (a worker that formats the entries it was given instead of the ones it
\* accumulated)
FinishJobOriginals ==
    /\ pc = "check"
    /\ batch_index = Len(batches)
    /\ events' = Emit(translation_finished(TRUE, format_srt(subtitles)))
    /\ pc' = "done"
    /\ UNCHANGED <<subtitles, text, batch_size, delay, abort, connected, batch_index,
                   translated_subtitles, handled, app_translated,
                   r_vars, f_vars, a_vars>>

\* the loop has run out of batches: finished(True, format_srt(...))
FinishJob ==
    /\ pc = "check"
    /\ batch_index = Len(batches)
    /\ events' = Emit(translation_finished(TRUE, format_srt(translated_subtitles)))
    /\ pc' = "done"
    /\ UNCHANGED <<subtitles, text, batch_size, delay, abort, connected, batch_index,
                   translated_subtitles, handled, app_translated,
                   r_vars, f_vars, a_vars>>

\* _translate_text with the flag set
AbortText ==
    /\ pc = "text_check"
    /\ abort
    /\ events' = Emit(translation_finished(FALSE, <<"Translation aborted">>))
    /\ pc' = "done"
    /\ UNCHANGED <<subtitles, text, batch_size, delay, abort, connected, batch_index,
                   translated_subtitles, handled, app_translated,
                   r_vars, f_vars, a_vars>>

\* _translate_text calls translate_text; without a connection it returns at
\* once and the two signals follow
SendText ==
    /\ pc = "text_check"
    /\ ~abort
    /\ IF connected
       THEN /\ events' = Emit([type |-> "request", index |-> 0, text |-> text])
            /\ pc' = "text_call"
       ELSE /\ events' = events
                  \o <<progress_updated(100),
                       translation_finished(FALSE, <<"Not connected to server">>)>>
            /\ pc' = "done"
    /\ UNCHANGED <<subtitles, text, batch_size, delay, abort, connected, batch_index,
                   translated_subtitles, handled, app_translated,
                   r_vars, f_vars, a_vars>>

\* translate_text returns to _translate_text: progress 100, then finished
\* with what it returned
TextReturned ==
    /\ pc = "text_call"
    /\ \/ \E message \in FailureMessages :
             events' = events
                \o <<progress_updated(100), translation_finished(FALSE, message)>>
       \/ \E raw \in BackendTexts :
             events' = events
                \o <<progress_updated(100),
                     translation_finished(TRUE, TranslatedText(raw))>>
    /\ pc' = "done"
    /\ UNCHANGED <<subtitles, text, batch_size, delay, abort, connected, batch_index,
                   translated_subtitles, handled, app_translated,
                   r_vars, f_vars, a_vars>>

\* ------------------------------------------------------------------------
\* The caller (TranslationApp), on the GUI thread
\* ------------------------------------------------------------------------
\* stop_translation and closeEvent: worker.stop() while the worker is running
Stop ==
    /\ pc # "done"
    /\ abort' = TRUE
    /\ events' = IF abort THEN events
                 ELSE Emit([type |-> "stop", pc |-> pc, index |-> batch_index])
    /\ UNCHANGED <<subtitles, text, batch_size, delay, connected, pc, batch_index,
                   translated_subtitles, handled, app_translated,
                   r_vars, f_vars, a_vars>>

\* the slot connected to the next emitted signal runs; handle_batch_completed
\* extends the caller's list with the batch of the signal
HandleSignal ==
    /\ handled < Len(Signals)
    /\ handled' = handled + 1
    /\ LET signal == Signals[handled + 1]
       IN  app_translated' =
              IF signal.type = "batch_completed"
              THEN app_translated \o signal.batch
              ELSE app_translated
    /\ UNCHANGED <<subtitles, text, batch_size, delay, abort, connected, pc,
                   batch_index, translated_subtitles, events,
                   r_vars, f_vars, a_vars>>

\* test_connection (the Connect button): the client is connected when the
\* server answers with status 200, and not connected otherwise
TestConnection ==
    /\ connected' \in BOOLEAN
    /\ UNCHANGED <<subtitles, text, batch_size, delay, abort, pc, batch_index,
                   translated_subtitles, events, handled, app_translated,
                   r_vars, f_vars, a_vars>>

\* ------------------------------------------------------------------------
\* The job
\* ------------------------------------------------------------------------
\* translate_srt or translate_free_text has started a worker: the client is
\* connected, the caller's list is empty
Init ==
    /\ \/ subtitles \in SubtitleLists /\ text = <<>>
       \/ subtitles = <<>> /\ text \in FreeTexts
    /\ batch_size \in BatchSizes
    /\ delay \in Delays
    /\ abort = FALSE
    /\ connected = TRUE
    /\ pc = "run"
    /\ batch_index = 0
    /\ translated_subtitles = <<>>
    /\ events = <<>>
    /\ handled = 0
    /\ app_translated = <<>>
    /\ r_pc = "off"
    /\ r_batch = <<>>
    /\ r_text = <<>>
    /\ r_out = <<>>
    /\ f_pc = "off"
    /\ f_in = <<>>
    /\ f_out = <<>>
    /\ NoApp

Next ==
    \/ Run
    \/ AbortBatch
    \/ SendBatch
    \/ BatchFailed
    \/ BatchTranslated
    \/ Wake
    \/ FinishJob
    \/ AbortText
    \/ SendText
    \/ TextReturned
    \/ Stop
    \/ HandleSignal
    \/ TestConnection

Spec == Init /\ [][Next]_vars

\* a step of the worker thread: run() and what it calls, each call to the
\* client and each sleep returning
WorkerStep ==
    \/ Run
    \/ AbortBatch
    \/ SendBatch
    \/ BatchFailed
    \/ BatchTranslated
    \/ Wake
    \/ FinishJob
    \/ AbortText
    \/ SendText
    \/ TextReturned

\* the job with a worker thread that is scheduled as long as it has a step
\* to take; the caller's stop requests, connection tests and slots come
\* whenever they come, or never
SpecLive == Init /\ [][Next]_vars /\ WF_vars(WorkerStep)

\* ------------------------------------------------------------------------
\* The reconciliation on its own
\* ------------------------------------------------------------------------
\* the worker reconciles the batch with the text translate_text returned
Reconciled ==
    /\ r_pc = "input"
    /\ r_out' = Reconcile(r_batch, r_text)
    /\ r_pc' = "output"
    /\ UNCHANGED <<r_batch, r_text, job_vars, f_vars, a_vars>>

InitReconcile ==
    /\ r_pc = "input"
    /\ r_batch \in Batches
    /\ r_text \in ReturnedTexts
    /\ r_out = <<>>
    /\ subtitles = <<>>
    /\ text = <<>>
    /\ batch_size = 1
    /\ delay = 0
    /\ abort = FALSE
    /\ connected = TRUE
    /\ pc = "done"
    /\ batch_index = 0
    /\ translated_subtitles = <<>>
    /\ events = <<>>
    /\ handled = 0
    /\ app_translated = <<>>
    /\ f_pc = "off"
    /\ f_in = <<>>
    /\ f_out = <<>>
    /\ NoApp

NextReconcile == Reconciled

SpecReconcile == InitReconcile /\ [][NextReconcile]_vars

\* ------------------------------------------------------------------------
\* Functions on their own
\* ------------------------------------------------------------------------
\* no job and no reconciliation
NoJob ==
    /\ subtitles = <<>>
    /\ text = <<>>
    /\ batch_size = 1
    /\ delay = 0
    /\ abort = FALSE
    /\ connected = TRUE
    /\ pc = "done"
    /\ batch_index = 0
    /\ translated_subtitles = <<>>
    /\ events = <<>>
    /\ handled = 0
    /\ app_translated = <<>>
    /\ r_pc = "off"
    /\ r_batch = <<>>
    /\ r_text = <<>>
    /\ r_out = <<>>
    /\ NoApp

\* the worker computes the progress after the batch at index of count batches
ProgressComputed ==
    /\ f_pc = "input"
    /\ f_out' = Progress(f_in.index, f_in.count)
    /\ f_pc' = "output"
    /\ UNCHANGED <<f_in, job_vars, r_vars, a_vars>>

InitProgress ==
    /\ NoJob
    /\ f_pc = "input"
    /\ f_in \in {in \in [index : 0..(MaxBatches - 1), count : 1..MaxBatches] :
                    in.index < in.count}
    /\ f_out = 0

NextProgress == ProgressComputed

SpecProgress == InitProgress /\ [][NextProgress]_vars

\* the entry lists and the batch sizes create_batches is applied to on its own
PlanLists == UNION {EntryLists(JobNumbers, n) : n \in 0..MaxSubs}
PlanSizes == (0 - MaxSubs)..(MaxSubs + 1)

\* SrtParser.create_batches returns the batches or raises
BatchesCreated ==
    /\ f_pc = "input"
    /\ f_out' = IF create_batches_raises(f_in.subtitles, f_in.batch_size)
                THEN [raised |-> TRUE, batches |-> <<>>]
                ELSE [raised |-> FALSE,
                      batches |-> create_batches(f_in.subtitles, f_in.batch_size)]
    /\ f_pc' = "output"
    /\ UNCHANGED <<f_in, job_vars, r_vars, a_vars>>

InitBatches ==
    /\ NoJob
    /\ f_pc = "input"
    /\ f_in \in [subtitles : PlanLists, batch_size : PlanSizes]
    /\ f_out = <<>>

NextBatches == BatchesCreated

SpecBatches == InitBatches /\ [][NextBatches]_vars

\* the subtitle documents parsed on their own: blocks of a number line, a
\* timestamp line and text lines, with a separator between two blocks and an
\* end after the last
DocNumbers == {<<"1">>, <<"0", "2">>, <<"1", "2">>, <<"0">>, <<"-", "1">>}
DocTexts == {<<"a">>, <<"a", "\n", "b">>, <<"a", " ">>}
DocSeparators == {<<"\n", "\n">>, <<"\n", "\n", "\n">>}
DocEnds == {<<>>, <<"\n">>, <<"\n", "\n">>}

DocBlocks == [number : DocNumbers, text : DocTexts]

Documents ==
    [blocks : UNION {[1..n -> DocBlocks] : n \in 1..MaxBlocks},
     separator : DocSeparators, end : DocEnds]

RECURSIVE DocTextFrom(_, _)
\* the text of the blocks of document d from block p on
DocTextFrom(d, p) ==
    d.blocks[p].number \o <<"\n">>
        \o StartTime(p) \o <<" --> ">> \o EndTime(p) \o <<"\n">>
        \o d.blocks[p].text
        \o (IF p = Len(d.blocks) THEN d.end
            ELSE d.separator \o DocTextFrom(d, p + 1))

\* the text of document d
DocText(d) == DocTextFrom(d, 1)

\* the document is parsed and the entries are formatted again
RoundTripped ==
    /\ f_pc = "input"
    /\ f_out' = [entries |-> parse_srt(DocText(f_in)),
                 text |-> format_srt(parse_srt(DocText(f_in)))]
    /\ f_pc' = "output"
    /\ UNCHANGED <<f_in, job_vars, r_vars, a_vars>>

InitRoundTrip ==
    /\ NoJob
    /\ f_pc = "input"
    /\ f_in \in Documents
    /\ f_out = <<>>

NextRoundTrip == RoundTripped

SpecRoundTrip == InitRoundTrip /\ [][NextRoundTrip]_vars

\* the longest text of the server, in pieces
MaxRaw == 3

\* the pieces of a text of the server: a letter, whitespace and the two stop
\* sequences of the payload
RawPieces == {"x", " ", "\n", "<end_of_turn>", "<start_of_turn>"}

\* result['results'][0]['text'] of a response with status 200
RawTexts == UNION {[1..n -> RawPieces] : n \in 0..MaxRaw}

\* translate_text returns with success: the stop sequences are taken off the
\* end, the text is cleaned and stripped
TextSanitized ==
    /\ f_pc = "input"
    /\ f_out' = TranslatedText(f_in)
    /\ f_pc' = "output"
    /\ UNCHANGED <<f_in, job_vars, r_vars, a_vars>>

InitSanitize ==
    /\ NoJob
    /\ f_pc = "input"
    /\ f_in \in RawTexts
    /\ f_out = <<>>

NextSanitize == TextSanitized

SpecSanitize == InitSanitize /\ [][NextSanitize]_vars

\* ------------------------------------------------------------------------
\* The application (TranslationApp) and the workers it starts
\* ------------------------------------------------------------------------
\* A worker is [mode, running, abort, finished]: running is isRunning(),
\* finished says that its translation_finished signal waits for its slot.
\* A worker that self.worker no longer refers to keeps running: its run()
\* holds a reference to it.
idle_vars ==
    <<subtitles, text, batch_size, delay, abort, pc, batch_index,
      translated_subtitles, events, handled, app_translated, r_vars, f_vars>>

\* the texts typed into the free-text source edit
SourceTexts == {<<>>, <<" ">>, <<"h", "i">>}

\* the numbers of entries parse_srt finds in the text of the SRT source edit
ParsedCounts == {0, 1}

TranslationWorker(mode) ==
    [mode |-> mode, running |-> TRUE, abort |-> FALSE, finished |-> FALSE]

\* TranslationApp.test_connection (the Connect button): the client's flag is
\* set to the outcome, and a success enables the translate buttons that
\* have something to translate
ClickConnect ==
    /\ ~ui.closed
    /\ \E success \in BOOLEAN :
          /\ connected' = success
          /\ ui' = [ui EXCEPT
                       !.translate_button =
                           IF success /\ ui.source_text # <<>> THEN TRUE ELSE @,
                       !.srt_translate_button =
                           IF success /\ original_subtitles > 0 THEN TRUE ELSE @,
                       !.last = "connect"]
    /\ UNCHANGED <<idle_vars, original_subtitles, worker, workers>>

\* update_char_count: the free-text source was edited
EditSourceText ==
    /\ ~ui.closed
    /\ \E typed \in SourceTexts :
          ui' = [ui EXCEPT !.source_text = typed,
                           !.translate_button = Len(typed) > 0 /\ connected,
                           !.last = "edit"]
    /\ UNCHANGED <<idle_vars, connected, original_subtitles, worker, workers>>

\* update_srt_stats: the SRT source was edited or a file imported; a blank
\* text leaves original_subtitles as it is
EditSrtText ==
    /\ ~ui.closed
    /\ \/ /\ ui' = [ui EXCEPT !.srt_translate_button = FALSE, !.last = "edit_srt"]
          /\ UNCHANGED original_subtitles
       \/ \E count \in ParsedCounts :
             /\ original_subtitles' = count
             /\ ui' = [ui EXCEPT !.srt_translate_button = count > 0 /\ connected,
                                 !.last = "edit_srt"]
    /\ UNCHANGED <<idle_vars, connected, worker, workers>>

\* translate_free_text (the Translate button) when it gets past its two
\* checks: a worker is made, kept in self.worker and started
ClickTranslate ==
    /\ ~ui.closed
    /\ ui.translate_button
    /\ connected
    /\ Len(Strip(ui.source_text)) > 0
    /\ Len(workers) < MaxWorkers
    /\ ui' = [ui EXCEPT !.translate_button = FALSE, !.last = "translate"]
    /\ workers' = Append(workers, TranslationWorker("text"))
    /\ worker' = Len(workers) + 1
    /\ UNCHANGED <<idle_vars, connected, original_subtitles>>

\* translate_srt (the Translate SRT button) when it gets past its two checks
ClickTranslateSrt ==
    /\ ~ui.closed
    /\ ui.srt_translate_button
    /\ connected
    /\ original_subtitles > 0
    /\ Len(workers) < MaxWorkers
    /\ ui' = [ui EXCEPT !.srt_translate_button = FALSE, !.stop_button = TRUE,
                        !.last = "translate_srt"]
    /\ workers' = Append(workers, TranslationWorker("srt"))
    /\ worker' = Len(workers) + 1
    /\ UNCHANGED <<idle_vars, connected, original_subtitles>>

\* self.worker.stop() when self.worker is a running worker
StopWorker ==
    IF worker # 0 /\ workers[worker].running
    THEN workers' = [workers EXCEPT ![worker].abort = TRUE]
    ELSE workers' = workers

\* stop_translation (the Stop button)
ClickStop ==
    /\ ~ui.closed
    /\ ui.stop_button
    /\ StopWorker
    /\ ui' = [ui EXCEPT !.last = "stop"]
    /\ UNCHANGED <<idle_vars, connected, original_subtitles, worker>>

\* closeEvent
CloseWindow ==
    /\ ~ui.closed
    /\ StopWorker
    /\ ui' = [ui EXCEPT !.closed = TRUE, !.last = "close"]
    /\ UNCHANGED <<idle_vars, connected, original_subtitles, worker>>

\* run() of a worker returns; its last signal waits for the GUI thread
WorkerFinished ==
    \E w \in 1..Len(workers) :
        /\ workers[w].running
        /\ workers' = [workers EXCEPT ![w].running = FALSE, ![w].finished = TRUE]
        /\ UNCHANGED <<idle_vars, connected, original_subtitles, worker, ui>>

\* handle_free_text_translation_finished and handle_srt_translation_finished
HandleFinished ==
    \E w \in 1..Len(workers) :
        /\ ~ui.closed
        /\ workers[w].finished
        /\ workers' = [workers EXCEPT ![w].finished = FALSE]
        /\ ui' = IF workers[w].mode = "text"
                 THEN [ui EXCEPT !.translate_button = TRUE]
                 ELSE [ui EXCEPT !.stop_button = FALSE,
                                 !.srt_translate_button =
                                     original_subtitles > 0 /\ connected]
        /\ UNCHANGED <<idle_vars, connected, original_subtitles, worker>>

\* the window has been made: the client is not connected
InitApp ==
    /\ NoApp
    /\ connected = FALSE
    /\ subtitles = <<>>
    /\ text = <<>>
    /\ batch_size = 1
    /\ delay = 0
    /\ abort = FALSE
    /\ pc = "done"
    /\ batch_index = 0
    /\ translated_subtitles = <<>>
    /\ events = <<>>
    /\ handled = 0
    /\ app_translated = <<>>
    /\ r_pc = "off"
    /\ r_batch = <<>>
    /\ r_text = <<>>
    /\ r_out = <<>>
    /\ f_pc = "off"
    /\ f_in = <<>>
    /\ f_out = <<>>

NextApp ==
    \/ ClickConnect
    \/ EditSourceText
    \/ EditSrtText
    \/ ClickTranslate
    \/ ClickTranslateSrt
    \/ ClickStop
    \/ CloseWindow
    \/ WorkerFinished
    \/ HandleFinished

SpecApp == InitApp /\ [][NextApp]_vars

\* ------------------------------------------------------------------------
\* Notions the properties are stated with
\* ------------------------------------------------------------------------
RECURSIVE MarkersFrom(_, _)
MarkersFrom(parts, k) ==
    IF k + 1 <= Len(parts)
    THEN <<[number |-> ParseInt(parts[k]), content |-> parts[k + 1]]>>
           \o MarkersFrom(parts, k + 2)
    ELSE <<>>

\* the [n] markers of a text in order, each with the content that follows it
\* up to the next marker or the end of the text
MarkersOf(t) == MarkersFrom(re_split(t), 2)

MarkersNumbered(t, n) == SelectSeq(MarkersOf(t), LAMBDA m : m.number = n)

MarkerNumbers(t) == {MarkersOf(t)[k].number : k \in 1..Len(MarkersOf(t))}

EntriesNumbered(entries, n) == SelectSeq(entries, LAMBDA e : e.number = n)

\* how often the entry occurs in the list
Count(entries, e) == Len(SelectSeq(entries, LAMBDA x : x = e))

IsSorted(entries) ==
    \A i, j \in 1..Len(entries) : i < j => entries[i].number <= entries[j].number

\* the positions in events of the batch-completed signals; the text the
\* batch was reconciled with is the event before it
Deliveries == {k \in 1..Len(events) : events[k].type = "batch_completed"}
DeliveredBatch(k) == events[k].batch
AskedBatch(k) == batches[events[k].index + 1]
AnswerText(k) == events[k - 1].text

RECURSIVE DeliveredUpTo(_)
\* the batches of the batch-completed signals among the first k events, joined
DeliveredUpTo(k) ==
    IF k = 0 THEN <<>>
    ELSE IF events[k].type = "batch_completed"
         THEN DeliveredUpTo(k - 1) \o events[k].batch
         ELSE DeliveredUpTo(k - 1)

IsSubtitleJob == Len(subtitles) > 0

FinishedWith(success) ==
    \E k \in 1..Len(events) :
        events[k].type = "translation_finished" /\ events[k].success = success

Aborted == translation_finished(FALSE, <<"Translation aborted">>)

\* the first stop request came when the worker was at one of the places and
\* at batch index
StoppedAt(places, index) ==
    \E s \in 1..Len(events) :
        /\ events[s].type = "stop"
        /\ events[s].pc \in places
        /\ events[s].index = index

\* ------------------------------------------------------------------------
\* C1..C10
\* ------------------------------------------------------------------------
\* C1: every reconciled batch the worker delivers has as many entries as the
\* batch it was made from, and the same set of entry numbers.
C1_SameCountAndNumbers ==
    \A k \in Deliveries :
        /\ Len(DeliveredBatch(k)) = Len(AskedBatch(k))
        /\ NumbersOf(DeliveredBatch(k)) = NumbersOf(AskedBatch(k))

\* C2: a subtitle job that finished with success has one output entry per
\* input entry: the same count, and for every input entry exactly one output
\* entry with its number and timestamps.
C2_OneOutputPerInput ==
    (IsSubtitleJob /\ FinishedWith(TRUE)) =>
        /\ Len(translated_subtitles) = Len(subtitles)
        /\ \A p \in 1..Len(subtitles) :
              Cardinality({q \in 1..Len(translated_subtitles) :
                  /\ translated_subtitles[q].number = subtitles[p].number
                  /\ translated_subtitles[q].start_time = subtitles[p].start_time
                  /\ translated_subtitles[q].end_time = subtitles[p].end_time}) = 1

\* C3: when the text has several markers with the number of a batch entry,
\* the delivered batch has exactly one entry with that number and its text
\* is the trimmed content of the first of these markers.
C3_FirstDuplicateWins ==
    \A k \in Deliveries :
        \A n \in NumbersOf(AskedBatch(k)) :
            Len(MarkersNumbered(AnswerText(k), n)) >= 2 =>
                LET outs == EntriesNumbered(DeliveredBatch(k), n)
                IN  /\ Len(outs) = 1
                    /\ outs[1].text = Strip(MarkersNumbered(AnswerText(k), n)[1].content)

\* C4: when the text has a marker for every entry of the batch, then for
\* every number n of the batch the output has an entry numbered n, and the
\* output entries numbered n are, marker by marker, the batch's entry
\* numbered n (its number and timestamps) with the trimmed content of the
\* marker as text.
C4_MarkedEntriesTranslated ==
    (r_pc = "output" /\ NumbersOf(r_batch) \subseteq MarkerNumbers(r_text)) =>
        \A n \in NumbersOf(r_batch) :
            LET ms == MarkersNumbered(r_text, n)
                outs == EntriesNumbered(r_out, n)
                first == r_batch[FirstWithNumber(r_batch, n)]
            IN  /\ Len(outs) = Len(ms)
                /\ Len(outs) >= 1
                /\ \A j \in 1..Len(outs) :
                      /\ outs[j].number = n
                      /\ outs[j].start_time = first.start_time
                      /\ outs[j].end_time = first.end_time
                      /\ outs[j].text = RStrip(LStrip(ms[j].content))

\* a batch of two entries with different numbers, each with a marker, the
\* higher number first, and a content with whitespace around it
C4_Witness ==
    /\ r_pc = "output"
    /\ Len(r_batch) = 2
    /\ r_batch[1].number # r_batch[2].number
    /\ NumbersOf(r_batch) \subseteq MarkerNumbers(r_text)
    /\ \E k \in 1..Len(MarkersOf(r_text)) :
          LET m == MarkersOf(r_text)[k]
          IN  /\ m.number \in NumbersOf(r_batch)
              /\ Len(RStrip(m.content)) < Len(m.content)
              /\ Len(LStrip(m.content)) < Len(m.content)
              /\ Len(RStrip(LStrip(m.content))) > 0

C6_LinesAssignedByPosition ==
    \A k \in Deliveries :
        (/\ MarkersOf(AnswerText(k)) = <<>>
         /\ Len(NonEmptyLines(AnswerText(k))) = Len(AskedBatch(k))) =>
            \A i \in 1..Len(AskedBatch(k)) :
                \E q \in 1..Len(DeliveredBatch(k)) :
                    DeliveredBatch(k)[q] =
                        [AskedBatch(k)[i] EXCEPT
                            !.text = Strip(NonEmptyLines(AnswerText(k))[i])]

\* C7: when the text has no marker and the number of its non-empty lines is
\* below half or above twice the number of batch entries, the output is the
\* batch's entries, every one with its original text: as many entries, each
\* as often as in the batch.
C7_OutOfRatioKeepsOriginals ==
    (/\ r_pc = "output"
     /\ MarkersOf(r_text) = <<>>
     /\ \/ 2 * Len(NonEmptyLines(r_text)) < Len(r_batch)
        \/ Len(NonEmptyLines(r_text)) > 2 * Len(r_batch)) =>
        /\ Len(r_out) = Len(r_batch)
        /\ \A p \in 1..Len(r_batch) :
              Count(r_out, r_batch[p]) = Count(r_batch, r_batch[p])

\* a text without markers and with more than twice as many lines as entries
C7_Witness ==
    /\ r_pc = "output"
    /\ MarkersOf(r_text) = <<>>
    /\ Len(NonEmptyLines(r_text)) > 2 * Len(r_batch)
    /\ Len(r_out) > 0

\* C8: every batch of a batch-completed signal is in ascending order of
\* entry number, and the worker's accumulated list is these batches joined
\* in the order of their signals.
C8_DeliveredBatchesSorted ==
    IsSubtitleJob =>
        /\ \A k \in Deliveries : IsSorted(DeliveredBatch(k))
        /\ translated_subtitles = DeliveredUpTo(Len(events))

\* a delivered batch whose text had the marker of the higher number first,
\* both numbers being in the batch
C8_Witness ==
    \E k \in Deliveries :
        LET ms == MarkersOf(AnswerText(k))
        IN  /\ Len(ms) >= 2
            /\ ms[1].number > ms[2].number
            /\ {ms[1].number, ms[2].number} \subseteq NumbersOf(AskedBatch(k))

\* the first stop request came after the batch-completed signal of the
\* first batch and before that of the second
StoppedAfterFirstBatch ==
    \E s \in 1..Len(events) :
        /\ events[s].type = "stop"
        /\ \E k \in 1..(s - 1) :
              events[k].type = "batch_completed" /\ events[k].index = 0
        /\ \A k \in 1..(s - 1) :
              events[k].type = "batch_completed" => events[k].index = 0

\* what is left of a job of three batches when only its first batch counts:
\* no batch-completed signal for a later batch, the accumulated lists hold
\* the first batch only, and the job, once done, has ended aborted
OnlyFirstBatchKept ==
    /\ \A k \in 1..Len(events) :
          /\ events[k].type = "batch_completed" => events[k].index = 0
          /\ events[k].type = "translation_finished" => events[k] = Aborted
    /\ translated_subtitles = DeliveredUpTo(Len(events))
    /\ Cardinality(Deliveries) = 1
    /\ app_translated \in {<<>>, translated_subtitles}
    /\ handled = Len(Signals) => app_translated = translated_subtitles
    /\ pc = "done" => events[Len(events)] = Aborted

\* C9 as claimed: in a job of three batches, a stop requested at any moment
\* after the first batch has completed leaves exactly the first batch.
C9_StopAnytimeAfterFirst ==
    (IsSubtitleJob /\ Len(batches) = 3 /\ StoppedAfterFirstBatch) => OnlyFirstBatchKept

\* C9 amended: in a job of three batches, a stop requested after the first
\* batch has completed and before the worker's check of the flag for the
\* second batch leaves exactly the first batch, and the job ends aborted.
C9_StopBeforeSecondCheck ==
    (IsSubtitleJob /\ Len(batches) = 3 /\ StoppedAt({"sleep", "check"}, 1)) =>
        OnlyFirstBatchKept

\* a job of three batches, stopped between its first batch and the check
\* for the second, has ended and the caller has run all its slots
C9_Witness ==
    /\ IsSubtitleJob
    /\ Len(batches) = 3
    /\ StoppedAt({"sleep", "check"}, 1)
    /\ pc = "done"
    /\ handled = Len(Signals)
    /\ Len(app_translated) > 0

\* C10: when the flag is set before the worker's first check, the subtitle
\* job sends no request, emits no batch-completed and no progress signal,
\* accumulates nothing, and ends with finished(false, aborted) alone.
C10_StopBeforeFirstCheck ==
    (IsSubtitleJob /\ StoppedAt({"run", "check"}, 0)) =>
        /\ Requests = <<>>
        /\ \A k \in 1..Len(events) :
              events[k].type \in {"stop", "translation_finished"}
        /\ translated_subtitles = <<>>
        /\ app_translated = <<>>
        /\ pc \in {"run", "check", "done"}
        /\ pc = "done" => Signals = <<Aborted>>

\* a subtitle job stopped before its first check has ended, and the caller
\* has run the slot of its finished signal
C10_Witness ==
    /\ IsSubtitleJob
    /\ StoppedAt({"run", "check"}, 0)
    /\ pc = "done"
    /\ handled = Len(Signals)

\* ------------------------------------------------------------------------
\* C11..C20
\* ------------------------------------------------------------------------
\* the answer of the backend to batch index has been reconciled and signalled
\* at position s of events: the response, batch_completed with the reconciled
\* batch, progress_updated
CompletedAt(s, index) ==
    /\ Len(events) >= s + 2
    /\ events[s].type = "response"
    /\ events[s].index = index
    /\ events[s + 1] = batch_completed(index, Reconcile(batches[index + 1], events[s].text))
    /\ events[s + 2] = progress_updated(Progress(index, Len(batches)))

\* the worker reported a failed request at position s of events
FailedAt(s) ==
    /\ Len(events) >= s
    /\ events[s].type = "translation_finished"
    /\ ~events[s].success
    /\ events[s] # Aborted

\* C11: a stop request that arrives while the request for batch k is in
\* flight does not interrupt it: no request is sent after it, no batch after
\* k is delivered, and once the call has returned either batch k was
\* reconciled and signalled as for any other batch, or the call failed and
\* the failure was reported.
C11_InFlightBatchKept ==
    \A s \in 1..Len(events) :
        (events[s].type = "stop" /\ events[s].pc = "call") =>
            /\ \A j \in (s + 1)..Len(events) : events[j].type # "request"
            /\ \A j \in Deliveries : events[j].index <= events[s].index
            /\ pc # "call" =>
                  \/ CompletedAt(s + 1, events[s].index)
                  \/ FailedAt(s + 1) /\ Len(events) = s + 1

\* a stop request arrived during the call for the first of several batches,
\* the batch was delivered and the job ended aborted
C11_Witness ==
    /\ Len(batches) >= 2
    /\ StoppedAt({"call"}, 0)
    /\ \E s \in 1..Len(events) : events[s].type = "stop" /\ CompletedAt(s + 1, 0)
    /\ events[Len(events)] = Aborted

\* the requests sent for batch index
RequestsFor(index) ==
    SelectSeq(events, LAMBDA e : e.type = "request" /\ e.index = index)

\* the position of the first event after position j that is not the stop
\* request, 0 when there is none
NextAfter(j) ==
    IF j + 1 <= Len(events) /\ events[j + 1].type # "stop" THEN j + 1
    ELSE IF j + 2 <= Len(events) THEN j + 2
    ELSE 0

\* C12: in a subtitle job, what follows the request for a batch is its
\* answer or the report of its failure; and when a failure is reported the
\* job is over with that report as its last event: the batch was asked for
\* at most once, no batch from it on was delivered, and nothing was
\* accumulated for it.
C12_FailureEndsJob ==
    IsSubtitleJob =>
        /\ \A j \in 1..Len(events) :
              (events[j].type = "request" /\ NextAfter(j) # 0) =>
                  \/ /\ events[NextAfter(j)].type = "response"
                     /\ events[NextAfter(j)].index = events[j].index
                  \/ FailedAt(NextAfter(j))
        /\ \A s \in 1..Len(events) :
              FailedAt(s) =>
                  /\ pc = "done"
                  /\ Len(events) = s
                  /\ Len(RequestsFor(batch_index)) <= 1
                  /\ \A j \in Deliveries : events[j].index < batch_index
                  /\ translated_subtitles = DeliveredUpTo(s)

\* the request for the second batch failed after the first was delivered
C12_Witness ==
    /\ IsSubtitleJob
    /\ batch_index = 1
    /\ Len(RequestsFor(1)) = 1
    /\ FailedAt(Len(events))
    /\ events[Len(events)].result
          = <<"Translation failed: ", "Server responded with status code: 500">>

\* the positions in events of the translation_finished signals
Finishes == {s \in 1..Len(events) : events[s].type = "translation_finished"}

\* C13: a job reports its end once and nothing comes after the report: a
\* translation_finished signal is the last event there is, the worker is
\* done when it has been emitted, and a worker that is done has emitted it.
C13_TerminalStatesFinal ==
    /\ Cardinality(Finishes) <= 1
    /\ \A s \in Finishes : s = Len(events) /\ pc = "done"
    /\ pc = "done" => Finishes = {Len(events)}

\* a job has ended after a stop request and the caller has run the slots of
\* all its signals
C13_Witness ==
    /\ pc = "done"
    /\ abort
    /\ Cardinality(Deliveries) >= 1
    /\ Finishes # {}
    /\ handled = Len(Signals)

\* the batch-completed signals in the order of their emission
Completions == SelectSeq(events, LAMBDA e : e.type = "batch_completed")

\* C14: in a subtitle job the batch-completed signals carry the indices 0,
\* 1, 2, ... in this order, each is followed at once by the progress signal
\* of its batch, and the request for a batch after the first is sent only
\* after both signals of the batch before it.
C14_NotificationsOrdered ==
    /\ \A i \in 1..Len(Completions) : Completions[i].index = i - 1
    /\ \A j \in Deliveries :
          /\ j + 1 <= Len(events)
          /\ events[j + 1] = progress_updated(Progress(events[j].index, Len(batches)))
    /\ \A r \in 1..Len(events) :
          (IsSubtitleJob /\ events[r].type = "request" /\ events[r].index >= 1) =>
              \E j \in Deliveries :
                  /\ events[j].index = events[r].index - 1
                  /\ j + 1 < r

\* three batches have been delivered and their signals handled
C14_Witness ==
    /\ Len(Completions) = 3
    /\ Len(RequestsFor(2)) = 1
    /\ handled = Len(Signals)

\* C15: a subtitle job whose batches were all delivered ends with
\* finished(True, ...), and the text of a finished(True, ...) signal of a
\* subtitle job is format_srt of the batches of all its batch-completed
\* signals joined in their order, which is also format_srt of the list the
\* caller has accumulated once it has handled the signals.
C15_FinalTextIsFormatOfDelivered ==
    IsSubtitleJob =>
        /\ (pc = "done" /\ Len(Completions) = Len(batches)) => FinishedWith(TRUE)
        /\ \A s \in Finishes :
              events[s].success =>
                  /\ Len(Completions) = Len(batches)
                  /\ events[s].result = format_srt(DeliveredUpTo(s))
                  /\ handled = Len(Signals) =>
                        events[s].result = format_srt(app_translated)

\* a job of several batches finished with success, the caller has handled
\* every signal, and an entry of the result differs from the entry given
C15_Witness ==
    /\ Len(batches) >= 2
    /\ FinishedWith(TRUE)
    /\ handled = Len(Signals)
    /\ app_translated # subtitles
    /\ Len(app_translated) = Len(subtitles)

\* C16: the progress signalled after the k-th of N batches is the integer
\* part of 100 * k / N: 100 after the last batch and less than 100 before.
C16_ProgressIsFloor ==
    f_pc = "output" =>
        LET k == f_in.index + 1
            N == f_in.count
        IN  /\ f_out = (100 * k) \div N
            /\ k = N => f_out = 100
            /\ k < N => f_out < 100

\* the job is a free-text job
IsTextJob == Len(subtitles) = 0

\* the flag was set before the worker looked at it
StoppedBeforeTextCheck == StoppedAt({"run", "text_check"}, 0)

\* C17: in a free-text job, a stop request that comes before the worker
\* looks at the flag means no request and the end finished(False,
\* "Translation aborted"); otherwise a job that has ended has sent exactly
\* one request and emitted progress 100 and then either finished(True, the
\* translated text) or finished(False, the message of the backend).
C17_FreeTextJob ==
    IsTextJob =>
        /\ StoppedBeforeTextCheck =>
              /\ Requests = <<>>
              /\ pc = "done" => Signals = <<Aborted>>
        /\ (pc = "done" /\ ~StoppedBeforeTextCheck) =>
              /\ Len(Requests) = 1
              /\ Requests[1].text = text
              /\ \/ \E raw \in BackendTexts :
                       Signals = <<progress_updated(100),
                                   translation_finished(TRUE, TranslatedText(raw))>>
                 \/ \E message \in FailureMessages :
                       /\ Len(Signals) >= 1
                       /\ Signals[Len(Signals)] = translation_finished(FALSE, message)

\* C18: for a batch size of 1 or more create_batches returns batches that
\* joined in order are the list it was given, each of batch_size entries
\* except the last, which has at least one entry and at most batch_size.
C18_BatchesPartitionInput ==
    (f_pc = "output" /\ f_in.batch_size >= 1) =>
        /\ ~f_out.raised
        /\ Flatten(f_out.batches) = f_in.subtitles
        /\ \A b \in 1..Len(f_out.batches) :
              /\ b < Len(f_out.batches) => Len(f_out.batches[b]) = f_in.batch_size
              /\ Len(f_out.batches[b]) >= 1
              /\ Len(f_out.batches[b]) <= f_in.batch_size

\* three entries in batches of two: a full batch and a last batch of one
C18_Witness ==
    /\ f_pc = "output"
    /\ Len(f_in.subtitles) = 3
    /\ f_in.batch_size = 2
    /\ Len(f_out.batches) = 2
    /\ Len(f_out.batches[2]) = 1

\* C19: for a batch size below 1 create_batches raises an error and returns
\* no batches.
C19_BatchSizeBelowOneRejected ==
    (f_pc = "output" /\ f_in.batch_size < 1) => f_out.raised

\* the document is laid out as format_srt lays documents out: numbers
\* without leading zeros, no whitespace at the end of a text, one empty line
\* between two blocks, one newline at the end
IsCanonical(d) ==
    /\ \A p \in 1..Len(d.blocks) :
          /\ d.blocks[p].number[1] # "0"
          /\ ~IsSpace(d.blocks[p].text[Len(d.blocks[p].text)])
    /\ d.separator = <<"\n", "\n">>
    /\ d.end = <<"\n">>

\* C20 as claimed: parsing a well-formed document and formatting the
\* entries gives the document back.
C20_RoundTripOfWellFormed ==
    f_pc = "output" => f_out.text = DocText(f_in)

\* C20: parsing a well-formed document gives one entry per block, and
\* formatting the entries gives the document back when it is laid out as
\* format_srt lays documents out.
C20_RoundTripOfCanonical ==
    f_pc = "output" =>
        /\ Len(f_out.entries) = Len(f_in.blocks)
        /\ IsCanonical(f_in) => f_out.text = DocText(f_in)

\* a canonical document of several blocks, one with a text of two lines, has
\* been parsed and formatted
C20_Witness ==
    /\ f_pc = "output"
    /\ IsCanonical(f_in)
    /\ Len(f_in.blocks) >= 2
    /\ \E p \in 1..Len(f_in.blocks) : f_in.blocks[p].text = <<"a", "\n", "b">>
    /\ Len(f_out.entries) = Len(f_in.blocks)
    /\ f_out.text = DocText(f_in)

\* ------------------------------------------------------------------------
\* C21..C30
\* ------------------------------------------------------------------------
\* C21: every entry parse_srt returns has a number of 1 or more, and a
\* block whose number line is zero or a negative integer gives no entry.
C21_ParsedNumbersPositive ==
    f_pc = "output" =>
        /\ \A p \in 1..Len(f_out.entries) : f_out.entries[p].number >= 1
        /\ Len(f_out.entries)
              = Cardinality({p \in 1..Len(f_in.blocks) :
                                int_value(f_in.blocks[p].number) >= 1})

\* C22: no step of a job changes the entries the worker was given: their
\* count, their order, and the number, timestamps and text of each.
C22_InputNeverMutated == [][subtitles' = subtitles]_vars

\* a subtitle job has delivered a batch with a translated text while the
\* entries it was given still have their source texts
C22_Witness ==
    /\ IsSubtitleJob
    /\ pc = "done"
    /\ \E k \in Deliveries :
          \E q \in 1..Len(DeliveredBatch(k)) : DeliveredBatch(k)[q].text = <<"x">>
    /\ \A p \in 1..Len(subtitles) : subtitles[p].text = SrcText(p)

\* the messages translate_text returns with a failure
ReturnedMessages == FailureMessages \cup {<<"Not connected to server">>}

\* C23: the text of a finished(False, ...) signal that reports a failed call
\* is the message translate_text returned, with nothing before or after it,
\* in a subtitle job as in a free-text job.
C23_FailureMessageVerbatim ==
    \A s \in 1..Len(events) : FailedAt(s) => events[s].result \in ReturnedMessages

\* the workers of the application that are running
RunningWorkers == {w \in 1..Len(workers) : workers[w].running}

\* C24: at most one worker the application started is running.
C24_OneWorkerRunning == Cardinality(RunningWorkers) <= 1

\* C25: after a Stop click or the closing of the window, every running
\* worker of a subtitle job has its abort flag set.
C25_StopReachesRunningJob ==
    ui.last \in {"stop", "close"} =>
        \A w \in RunningWorkers : workers[w].mode = "srt" => workers[w].abort

\* a stop request has been made in a subtitle job
StopRequested == \E s \in 1..Len(events) : events[s].type = "stop"

\* the first stop request came while the worker still had a look at the flag
\* before it: before the loop, at the head of the loop for a batch, asleep
\* between two batches, or in the call for a batch that is not the last
StoppedBeforeLastCheck ==
    \E s \in 1..Len(events) :
        /\ events[s].type = "stop"
        /\ \/ events[s].pc \in {"run", "sleep"}
           \/ events[s].pc = "check" /\ events[s].index < Len(batches)
           \/ events[s].pc = "call" /\ events[s].index < Len(batches) - 1

\* C26 as claimed: a subtitle job that was asked to stop at any moment
\* before its finished signal does not finish with success.
C26_StopPreventsSuccess ==
    (IsSubtitleJob /\ StopRequested) => ~FinishedWith(TRUE)

\* C26: a subtitle job that was asked to stop before the worker looked at
\* the flag for its last batch does not finish with success.
C26_StopBeforeLastCheckPreventsSuccess ==
    (IsSubtitleJob /\ StoppedBeforeLastCheck) => ~FinishedWith(TRUE)

\* a job asked to stop while it slept between two batches has ended aborted
\* with the batches before the stop delivered
C26_Witness ==
    /\ IsSubtitleJob
    /\ StoppedAt({"sleep"}, 1)
    /\ Cardinality(Deliveries) = 1
    /\ pc = "done"
    /\ events[Len(events)] = Aborted

\* the worker has emitted its translation_finished signal
Finished == Cardinality(Finishes) > 0

\* C27: a started worker, in a subtitle job as in a free-text job, whatever
\* the entries, the batch size, the delay and the moment of a stop request,
\* comes to emit its translation_finished signal when every call to the
\* client and every sleep returns.
C27_RunEventuallyFinishes == <>Finished

\* a subtitle job with a delay that slept between its batches, was asked to
\* stop during its last call and has finished
C27_Witness ==
    /\ IsSubtitleJob
    /\ delay > 0
    /\ Cardinality(Deliveries) = 2
    /\ StoppedAt({"call"}, 1)
    /\ Finished
    /\ pc = "done"

\* a request was sent and has had no answer among the first s events
RequestOpenAt(s) ==
    \E k \in 1..s :
        /\ events[k].type = "request"
        /\ \A j \in (k + 1)..s : events[j].type # "response"

\* C28: whatever the caller does with the Connect button while the job runs,
\* a job reports a failure only when a request it sent has failed: the
\* report comes after a request that had no answer.
C28_FailureOnlyAfterFailedRequest ==
    \A s \in 1..Len(events) : FailedAt(s) => RequestOpenAt(s)

\* the numbers and timestamps of a list of entries, position by position
Placement(subs) ==
    [k \in 1..Len(subs) |-> <<subs[k].number, subs[k].start_time, subs[k].end_time>>]

\* C29: the entries a job that finished with success has formatted into its
\* final text carry, position by position, the numbers and timestamps of
\* the entries the job was given, in ascending order of number or not.
C29_DisplayOrderKept ==
    (IsSubtitleJob /\ FinishedWith(TRUE)) =>
        Placement(translated_subtitles) = Placement(subtitles)

\* the text of the finished(True, ...) signal of the job
FinalText ==
    LET s == CHOOSE k \in Finishes : events[k].success IN events[s].result

\* C30: the final text of a job that finished with success parses into as
\* many entries as the job was given, whatever the backend answered.
C30_FinalTextParsesToAllEntries ==
    (IsSubtitleJob /\ FinishedWith(TRUE)) =>
        Len(parse_srt(FinalText)) = Len(subtitles)

\* C31: the text translate_text returns with success ends with none of the
\* stop sequences of the payload, whatever the text of the server.
C31_NoStopSequenceAtEnd ==
    f_pc = "output" =>
        \A k \in 1..Len(stop_sequence) : ~EndsWith(f_out, stop_sequence[k])
====
